---- MODULE Spec2Model ----
(***************************************************************************)
(* A model of The Quranic (src/script.js): a browser page that loads a     *)
(* corpus of verses with precomputed embeddings, flattens it into one      *)
(* list, and searches that list by keyword (substring of the translation)  *)
(* or semantically (cosine similarity of a query embedding).               *)
(*                                                                         *)
(* JavaScript values are modelled as tagged records ([t |-> "number", ...])*)
(* so that a missing property (undefined), a string and an array can sit   *)
(* in the same field.  Strings that the code inspects character by         *)
(* character (search terms, translations) are sequences of one-character   *)
(* strings; strings the code only copies are TLA+ strings.                 *)
(***************************************************************************)
EXTENDS Integers, Sequences, FiniteSets, TLC

VARIABLES
    file,                     \* what fetch('quran_with_embeddings.json') yields
    pipelineOk,               \* whether pipeline(...) will resolve (TRUE) or reject
    quranData,                \* script.js:9
    allVersesWithEmbeddings,  \* script.js:10
    embedder,                 \* script.js:11
    queryEmbeddingCache,      \* script.js:12 (own properties)
    currentView,              \* script.js:13
    modelLoaded,              \* script.js:14
    content,                  \* innerHTML of #content
    searchBtn,                \* #searchBtn: disabled, textContent
    semanticRadioDisabled,    \* #semanticRadio.disabled
    loadingStatus,            \* #loadingStatus.textContent
    alertMsg,                 \* text of the last alert() shown
    initPc,                   \* position of init()
    pending,                  \* semantic searches awaiting embedder(query)
    modelCalls,               \* number of embedder(query) invocations per text
    unhandled,                \* the last error no handler caught, if any
    loads,                    \* number of completed loadQuranData() calls
    call                      \* the last completed call of the function observed:
                              \* its arguments and its result

corpusVars == <<quranData, allVersesWithEmbeddings>>
modelVars  == <<embedder, modelLoaded, queryEmbeddingCache>>
domVars    == <<content, currentView, searchBtn, semanticRadioDisabled,
                loadingStatus, alertMsg>>
envVars    == <<file, pipelineOk>>
procVars   == <<initPc, pending, modelCalls, unhandled>>
vars == <<file, pipelineOk, quranData, allVersesWithEmbeddings, embedder,
          queryEmbeddingCache, currentView, modelLoaded, content, searchBtn,
          semanticRadioDisabled, loadingStatus, alertMsg, initPc, pending,
          modelCalls, unhandled, loads, call>>

-----------------------------------------------------------------------------
(* Bounds of the model.                                                    *)

MaxChapters == 2
MaxVersesPerChapter == 2
MaxLoads == 2
MaxKeywordVerses == 3
MaxOverCap == 2
MaxRankVerses == 3
MaxTopK == 3
MaxModelCalls == 3

-----------------------------------------------------------------------------
(* JavaScript values.                                                      *)

Undefined == [t |-> "undefined"]
JsNull    == [t |-> "null"]
JsNum(n)  == [t |-> "number", v |-> n]
JsStr(s)  == [t |-> "string", v |-> s]
JsArr(s)  == [t |-> "array", v |-> s]
JsFunction(n) == [t |-> "function", length |-> n]

\* x.length of an array or a function
JsLength(x) == IF x.t = "array" THEN Len(x.v) ELSE x.length

\* x[i] for a 0-based index i: undefined past the end of an array, and for a
\* function.
ElementAt(x, i) ==
    IF x.t = "array" /\ i + 1 <= Len(x.v) THEN x.v[i + 1] ELSE Undefined

Min(a, b) == IF a < b THEN a ELSE b

\* Array.isArray(x)
IsArray(x) == x.t = "array"

\* ToBoolean(x) for the values a JSON document can hold.
Truthy(x) ==
    CASE x.t = "undefined" -> FALSE
      [] x.t = "null"      -> FALSE
      [] x.t = "number"    -> x.v # 0
      [] x.t = "string"    -> Len(x.v) > 0
      [] OTHER             -> TRUE

-----------------------------------------------------------------------------
(* The corpus document and its flattening (loadQuranData).                 *)

Mercy == <<"M", "e", "r", "c", "y">>
Light == <<"l", "i", "g", "h", "t">>

Verse(id, translation, embedding) ==
    [id |-> id, text |-> "arabic", translation |-> translation,
     embedding |-> embedding]

Surah(name, verses) ==
    [name |-> name, transliteration |-> name, translation |-> "meaning",
     type |-> "meccan", total_verses |-> IF IsArray(verses) THEN Len(verses.v) ELSE 0,
     verses |-> verses]

\* The parsed document: an object whose surahs property is a JS value.
Doc(surahs) == [t |-> "object", surahs |-> surahs]

FetchError  == [kind |-> "fetchError"]
InvalidJson == [kind |-> "invalidJson"]
Json(doc)   == [kind |-> "json", doc |-> doc]

\* The record the inner loop pushes for one verse (script.js:32-40).
VerseRecord(surah, surahIndex, verse) ==
    [surah_id |-> surahIndex + 1,
     surah_name |-> surah.name,
     surah_english |-> surah.transliteration,
     verse_id |-> verse.id,
     text_arabic |-> verse.text,
     text_translation |-> verse.translation,
     embedding |-> verse.embedding]

\* surah.verses.forEach(verse => allVersesWithEmbeddings.push({...})): one
\* record appended per verse, in the order of surah.verses.
PushVerses(list, surah, surahIndex, verses) ==
    list \o [j \in 1..Len(verses) |-> VerseRecord(surah, surahIndex, verses[j])]

\* quranData.surahs.forEach((surah, surahIndex) => ...): the list after the
\* loop, and whether the loop threw (surah.verses has no forEach).  i is the
\* 1-based position, so surahIndex = i - 1.
RECURSIVE FlattenFrom(_, _, _)
FlattenFrom(list, surahs, i) ==
    IF i > Len(surahs) THEN [list |-> list, threw |-> FALSE]
    ELSE IF ~IsArray(surahs[i].verses) THEN [list |-> list, threw |-> TRUE]
    ELSE FlattenFrom(PushVerses(list, surahs[i], i - 1, surahs[i].verses.v),
                     surahs, i + 1)

KeepVerses(old) == old

\* allVersesWithEmbeddings = [] (script.js:29)
ResetVerses(old) == <<>>

\* displaySurahList's innerHTML: one card per surah (script.js:189-203).
SurahListHtml(surahs) ==
    [view |-> "surahList",
     cards |-> [i \in 1..Len(surahs) |->
                   [number |-> i, name |-> surahs[i].name,
                    total_verses |-> surahs[i].total_verses]]]

\* showError's innerHTML (script.js:373-379); the message is the sequence of
\* the parts of its template literal.
ErrorHtml(message) == [view |-> "error", message |-> message]

LoadFailedMsg ==
    "Failed to load Quran data. Make sure quran_with_embeddings.json is in the same folder."

\* The globals and DOM after loadQuranData() has run on what fetch yielded:
\* [quranData, list, content, currentView, ok].
LoadOutcome(f, oldData, oldList, oldContent, oldView) ==
    IF f.kind # "json"
    THEN \* fetch rejected, or response.json() rejected: nothing assigned yet
         [quranData |-> oldData, list |-> oldList,
          content |-> ErrorHtml(<<LoadFailedMsg>>), currentView |-> oldView, ok |-> FALSE]
    ELSE IF f.doc.t # "object" \/ ~IsArray(f.doc.surahs)
    THEN \* quranData assigned, list reset, then quranData.surahs.forEach throws
         [quranData |-> f.doc, list |-> ResetVerses(oldList),
          content |-> ErrorHtml(<<LoadFailedMsg>>), currentView |-> oldView, ok |-> FALSE]
    ELSE LET r == FlattenFrom(ResetVerses(oldList), f.doc.surahs.v, 1) IN
         IF r.threw
         THEN [quranData |-> f.doc, list |-> r.list,
               content |-> ErrorHtml(<<LoadFailedMsg>>), currentView |-> oldView, ok |-> FALSE]
         ELSE [quranData |-> f.doc, list |-> r.list,
               content |-> SurahListHtml(f.doc.surahs.v), currentView |-> "home",
               ok |-> TRUE]

-----------------------------------------------------------------------------
(* JavaScript numbers.  A number is NaN, an infinity, or a fraction n/d in *)
(* lowest terms with d > 0.  The vectors of the model have small integer   *)
(* entries and norms that are whole numbers, for which double arithmetic   *)
(* is exact and the quotient of equal fractions is the same double.        *)

NaN     == [k |-> "nan"]
Inf(sg) == [k |-> "inf", s |-> sg]

Abs(x) == IF x < 0 THEN 0 - x ELSE x
Sign(x) == IF x < 0 THEN 0 - 1 ELSE IF x > 0 THEN 1 ELSE 0

RECURSIVE Gcd(_, _)
Gcd(a, b) == IF b = 0 THEN a ELSE Gcd(b, a % b)

\* The fraction n/d (d # 0) in lowest terms.
Frac(n, d) ==
    LET g == Gcd(Abs(n), Abs(d)) IN
    [k |-> "num", n |-> (Sign(d) * n) \div g, d |-> Abs(d) \div g]

Num(n) == Frac(n, 1)

IsNaN(x) == x.k = "nan"

\* ToNumber(x) for an element read from an array of a JSON document; an index
\* past the end reads undefined.
ToNumber(x) ==
    CASE x.t = "number" -> Num(x.v)
      [] x.t = "null"   -> Num(0)
      [] x.t = "string" -> IF Len(x.v) = 0 THEN Num(0) ELSE NaN
      [] OTHER          -> NaN

JsAdd(x, y) ==
    CASE IsNaN(x) \/ IsNaN(y) -> NaN
      [] x.k = "inf" /\ y.k = "inf" -> IF x.s = y.s THEN x ELSE NaN
      [] x.k = "inf" -> x
      [] y.k = "inf" -> y
      [] OTHER -> Frac(x.n * y.d + y.n * x.d, x.d * y.d)

JsNeg(x) ==
    CASE IsNaN(x) -> NaN
      [] x.k = "inf" -> Inf(0 - x.s)
      [] OTHER -> Frac(0 - x.n, x.d)

JsSub(x, y) == JsAdd(x, JsNeg(y))

JsMul(x, y) ==
    CASE IsNaN(x) \/ IsNaN(y) -> NaN
      [] x.k = "inf" /\ y.k = "inf" -> Inf(x.s * y.s)
      [] x.k = "inf" -> IF y.n = 0 THEN NaN ELSE Inf(x.s * Sign(y.n))
      [] y.k = "inf" -> IF x.n = 0 THEN NaN ELSE Inf(y.s * Sign(x.n))
      [] OTHER -> Frac(x.n * y.n, x.d * y.d)

JsDiv(x, y) ==
    CASE IsNaN(x) \/ IsNaN(y) -> NaN
      [] x.k = "inf" /\ y.k = "inf" -> NaN
      [] x.k = "inf" -> IF y.n < 0 THEN Inf(0 - x.s) ELSE x
      [] y.k = "inf" -> Num(0)
      [] y.n = 0 -> IF x.n = 0 THEN NaN ELSE Inf(Sign(x.n))
      [] OTHER -> Frac(x.n * y.d, x.d * y.n)

\* Math.sqrt, for NaN, infinities, negatives and whole squares.
JsSqrt(x) ==
    CASE IsNaN(x) -> NaN
      [] x.k = "inf" -> IF x.s > 0 THEN x ELSE NaN
      [] x.n < 0 -> NaN
      [] OTHER -> Frac(CHOOSE r \in 0..x.n : r * r = x.n,
                       CHOOSE r \in 1..x.d : r * r = x.d)

\* x is a finite number in [-1, 1].
InUnitRange(x) == x.k = "num" /\ Abs(x.n) <= x.d

-----------------------------------------------------------------------------
(* Similarity and ranking (cosineSimilarity, semanticSearch).              *)

\* The three accumulators after the loop over i = 0 .. a.length - 1
\* (script.js:136-144); a is what getQueryEmbedding returned, b a corpus array.
RECURSIVE Accumulate(_, _, _, _)
Accumulate(a, b, i, acc) ==
    IF i >= JsLength(a) THEN acc
    ELSE LET ai == ToNumber(ElementAt(a, i))
             bi == ToNumber(ElementAt(b, i)) IN
         Accumulate(a, b, i + 1,
             [dotProduct |-> JsAdd(acc.dotProduct, JsMul(ai, bi)),
              normA |-> JsAdd(acc.normA, JsMul(ai, ai)),
              normB |-> JsAdd(acc.normB, JsMul(bi, bi))])

\* cosineSimilarity(a, b) (script.js:135-147)
CosineSimilarity(a, b) ==
    LET acc == Accumulate(a, b, 0,
                   [dotProduct |-> Num(0), normA |-> Num(0), normB |-> Num(0)]) IN
    JsDiv(acc.dotProduct, JsMul(JsSqrt(acc.normA), JsSqrt(acc.normB)))

\* verse.embedding && Array.isArray(verse.embedding) (script.js:162)
HasEmbeddingArray(verse) == Truthy(verse.embedding) /\ IsArray(verse.embedding)

\* .filter(...).map(verse => ({verse, relevance})) (script.js:161-166)
Similarities(queryEmbedding, list) ==
    LET kept == SelectSeq(list, HasEmbeddingArray) IN
    [i \in 1..Len(kept) |->
        [verse |-> kept[i],
         relevance |-> CosineSimilarity(queryEmbedding, kept[i].embedding)]]

\* The comparator (a, b) => b.relevance - a.relevance as sort reads it: the
\* sign of the difference, NaN read as +0 (ECMA-262, SortCompare).
Compare(a, b) ==
    LET v == JsSub(b.relevance, a.relevance) IN
    CASE IsNaN(v) -> 0
      [] v.k = "inf" -> v.s
      [] OTHER -> Sign(v.n)

\* The comparator orders the list consistently: elements it calls equal to a
\* common element are equal to each other.  It fails only when a NaN relevance
\* sits beside two relevances that differ.
ConsistentComparator(list) ==
    \A i, j, l \in 1..Len(list) :
        (Compare(list[i], list[j]) = 0 /\ Compare(list[j], list[l]) = 0)
            => Compare(list[i], list[l]) = 0

\* x inserted after every element that does not have to follow it.
RECURSIVE InsertSorted(_, _, _)
InsertSorted(sorted, x, p) ==
    IF p > Len(sorted) THEN Append(sorted, x)
    ELSE IF Compare(sorted[p], x) > 0
    THEN SubSeq(sorted, 1, p - 1) \o <<x>> \o SubSeq(sorted, p, Len(sorted))
    ELSE InsertSorted(sorted, x, p + 1)

\* The stable sort of the list under Compare.
RECURSIVE StableSort(_, _, _)
StableSort(list, i, sorted) ==
    IF i > Len(list) THEN sorted
    ELSE StableSort(list, i + 1, InsertSorted(sorted, list[i], 1))

Reorderings(list) ==
    {[i \in 1..Len(list) |-> list[p[i]]] :
        p \in {f \in [1..Len(list) -> 1..Len(list)] :
                  \A i, j \in 1..Len(list) : i # j => f[i] # f[j]}}

\* similarities.sort((a, b) => b.relevance - a.relevance) (script.js:171): the
\* lists the sort may leave.  Array.prototype.sort is stable; for a comparator
\* that is not consistent the order is implementation-defined.
SortOutcomes(list) ==
    IF ConsistentComparator(list) THEN {StableSort(list, 1, <<>>)}
    ELSE Reorderings(list)

\* similarities.slice(0, topK) for topK >= 0 (script.js:173)
Slice(list, topK) == SubSeq(list, 1, Min(topK, Len(list)))

\* The lists semanticSearch may return for a query embedding (script.js:161-176).
TopResults(queryEmbedding, list, topK) ==
    {Slice(sorted, topK) : sorted \in SortOutcomes(Similarities(queryEmbedding, list))}

-----------------------------------------------------------------------------
(* Keyword search (keywordSearchAndDisplay, displayKeywordResults).        *)

AsciiUpper == <<"A", "B", "C", "D", "E", "F", "G", "H", "I", "J", "K", "L", "M",
                "N", "O", "P", "Q", "R", "S", "T", "U", "V", "W", "X", "Y", "Z">>
AsciiLower == <<"a", "b", "c", "d", "e", "f", "g", "h", "i", "j", "k", "l", "m",
                "n", "o", "p", "q", "r", "s", "t", "u", "v", "w", "x", "y", "z">>

\* The lower-case letter of each upper-case letter.
LowerOfUpper ==
    [u \in {AsciiUpper[i] : i \in 1..26} |->
        AsciiLower[CHOOSE i \in 1..26 : AsciiUpper[i] = u]]

ToLowerChar(c) == IF c \in DOMAIN LowerOfUpper THEN LowerOfUpper[c] ELSE c

CaseSensitive(s) == s

\* String.prototype.toLowerCase
ToLowerCase(s) == [i \in 1..Len(s) |-> ToLowerChar(s[i])]

\* String.prototype.includes
Includes(s, t) == \E i \in 0..(Len(s) - Len(t)) : SubSeq(s, i + 1, i + Len(t)) = t

\* The number of rendered matches: matches.slice(0, 50) (script.js:355).
KeywordDisplayCap == 50

\* allVersesWithEmbeddings.filter(verse =>
\*     verse.text_translation.toLowerCase().includes(lowerQuery))
\* (script.js:273-275): the matches in list order, or threw when some
\* text_translation has no toLowerCase method (the filter visits every verse).
KeywordFilter(list, lowerQuery) ==
    IF \E i \in 1..Len(list) : list[i].text_translation.t # "string"
    THEN [threw |-> TRUE, matches |-> <<>>]
    ELSE [threw |-> FALSE,
          matches |-> SelectSeq(list,
              LAMBDA verse : Includes(ToLowerCase(verse.text_translation.v), lowerQuery))]

\* One rendered verse of a result list (script.js:356-364, 328-337).
VerseHtml(verse) ==
    [surah_english |-> verse.surah_english, verse_id |-> verse.verse_id,
     text_arabic |-> verse.text_arabic, text_translation |-> verse.text_translation]

KeywordResultsHtmlUncapped(matches, searchTerm) ==
    [view |-> "keywordResults", found |-> Len(matches), term |-> searchTerm,
     verses |-> [i \in 1..Len(matches) |-> VerseHtml(matches[i])]]

\* displayKeywordResults' innerHTML (script.js:344-368).
KeywordResultsHtml(matches, searchTerm) ==
    [view |-> "keywordResults", found |-> Len(matches), term |-> searchTerm,
     verses |-> [i \in 1..Min(KeywordDisplayCap, Len(matches)) |-> VerseHtml(matches[i])]]

LoadingHtml(text) == [view |-> "loading", text |-> text]

NoResultsHtml(hint) == [view |-> "noResults", hint |-> hint]

\* keywordSearchAndDisplay(searchTerm) (script.js:268-288): the innerHTML of
\* #content when it returns or throws, its local matches, and whether it threw.
KeywordOutcome(list, searchTerm) ==
    LET r == KeywordFilter(list, ToLowerCase(searchTerm)) IN
    IF r.threw
    THEN [threw |-> TRUE, matches |-> <<>>, content |-> LoadingHtml("Searching...")]
    ELSE IF Len(r.matches) > 0
    THEN [threw |-> FALSE, matches |-> r.matches,
          content |-> KeywordResultsHtml(r.matches, searchTerm)]
    ELSE [threw |-> FALSE, matches |-> r.matches,
          content |-> NoResultsHtml("Try Semantic Search for better results or different keywords")]

-----------------------------------------------------------------------------
(* Search input and the query embedding cache (searchVerses,               *)
(* getQueryEmbedding).                                                     *)

IsWhitespace(c) == c \in {" ", "\t", "\n"}

RECURSIVE TrimStart(_)
TrimStart(s) ==
    IF Len(s) > 0 /\ IsWhitespace(s[1]) THEN TrimStart(Tail(s)) ELSE s

RECURSIVE TrimEnd(_)
TrimEnd(s) ==
    IF Len(s) > 0 /\ IsWhitespace(s[Len(s)]) THEN TrimEnd(SubSeq(s, 1, Len(s) - 1)) ELSE s

Untrimmed(s) == s

\* String.prototype.trim
Trim(s) == TrimEnd(TrimStart(s))

Constructor == <<"c", "o", "n", "s", "t", "r", "u", "c", "t", "o", "r">>

\* What the user may have typed into #searchInput.
SearchInputs ==
    {<<>>, <<" ", " ">>, <<" ">> \o Mercy \o <<" ">>, Light, Constructor}

SearchModes == {"keyword", "semantic"}

\* The terms searchVerses passes on.
SearchTerms == {Trim(v) : v \in SearchInputs} \ {<<>>}

\* The property names queryEmbeddingCache = {} inherits from Object.prototype,
\* among the texts of the model, with the function each names.
InheritedProperty(query) ==
    IF query = Constructor THEN JsFunction(1) ELSE Undefined

CacheLookupNothing(cache, query) == Undefined

\* queryEmbeddingCache[query] (script.js:106, 108): an own property, else an
\* inherited one, else undefined.  cache holds the own properties.
CacheLookup(cache, query) ==
    IF query \in DOMAIN cache THEN cache[query] ELSE InheritedProperty(query)

\* queryEmbeddingCache[query] = embedding (script.js:125)
CacheStore(cache, query, embedding) ==
    [t \in DOMAIN cache \cup {query} |-> IF t = query THEN embedding ELSE cache[t]]

\* semanticSearch(searchTerm, 20) (script.js:293)
SemanticTopK == 20

\* (relevance * 100).toFixed(0) (script.js:326): the nearest integer, halves
\* away from zero, or NaN.
PercentText(relevance) ==
    CASE IsNaN(relevance) -> NaN
      [] relevance.k = "inf" -> relevance
      [] OTHER ->
           LET m == Abs(relevance.n) * 100 IN
           Num(Sign(relevance.n) * ((2 * m + relevance.d) \div (2 * relevance.d)))

\* displaySemanticResults' innerHTML (script.js:313-341).
SemanticResultsHtml(results, searchTerm) ==
    [view |-> "semanticResults", found |-> Len(results), term |-> searchTerm,
     results |-> [i \in 1..Len(results) |->
                    [percent |-> PercentText(results[i].relevance),
                     verse |-> VerseHtml(results[i].verse)]]]

\* What semanticSearchAndDisplay may leave in #content once getQueryEmbedding
\* has returned queryEmbedding (script.js:158-176, 293-306).
SemanticContents(queryEmbedding, list, searchTerm) ==
    {IF Len(results) > 0
     THEN SemanticResultsHtml(results, searchTerm)
     ELSE NoResultsHtml("Try keyword search or different terms") :
        results \in TopResults(queryEmbedding, list, SemanticTopK)}

EnterTermMsg == "Please enter a search term"
ModelLoadingMsg ==
    "AI model is still loading. Please wait a moment or use keyword search."
ModelNotLoadedMsg == "AI model not loaded yet. Please wait..."

ButtonIdle == [disabled |-> FALSE, textContent |-> "Search"]
ButtonBusy == [disabled |-> TRUE, textContent |-> "Searching..."]

-----------------------------------------------------------------------------
(* The state after the script has been evaluated (script.js:9-14) and      *)
(* before DOMContentLoaded.                                                *)

NoCall == [fn |-> "none"]

InitGlobals ==
    /\ quranData = JsNull
    /\ allVersesWithEmbeddings = <<>>
    /\ embedder = "null"
    /\ queryEmbeddingCache = <<>>
    /\ currentView = "home"
    /\ modelLoaded = FALSE
    /\ content = [view |-> "initial"]
    /\ searchBtn = ButtonIdle
    /\ semanticRadioDisabled = FALSE
    /\ loadingStatus = "initial"
    /\ alertMsg = "none"
    /\ initPc = "start"
    /\ pending = <<>>
    /\ modelCalls = [t \in SearchTerms |-> 0]
    /\ unhandled = "none"
    /\ loads = 0
    /\ call = NoCall

-----------------------------------------------------------------------------
(* SpecLoad: loadQuranData() applied, possibly repeatedly, to every        *)
(* document of a bounded family.                                           *)

SeqsUpTo(S, n) == UNION {[1..k -> S] : k \in 0..n}

SurahNames == {"Al-Fatihah", "Al-Baqarah"}

LoadVerses == {Verse(id, JsStr(Mercy), JsArr(<<JsNum(1), JsNum(0)>>)) : id \in 1..2}

LoadSurahs ==
    {Surah(n, JsArr(vs)) : n \in SurahNames, vs \in SeqsUpTo(LoadVerses, MaxVersesPerChapter)}
    \cup {Surah(n, Undefined) : n \in SurahNames}

LoadFiles ==
    {Json(Doc(JsArr(ss))) : ss \in SeqsUpTo(LoadSurahs, MaxChapters)}
    \cup {FetchError, InvalidJson, Json(Doc(Undefined)), Json(JsNull)}

InitLoad ==
    /\ file \in LoadFiles
    /\ pipelineOk = TRUE
    /\ InitGlobals

\* One complete call of loadQuranData() (script.js:23-49).
CallLoadQuranData ==
    /\ loads < MaxLoads
    /\ LET o == LoadOutcome(file, quranData, allVersesWithEmbeddings, content, currentView) IN
         /\ quranData' = o.quranData
         /\ allVersesWithEmbeddings' = o.list
         /\ content' = o.content
         /\ currentView' = o.currentView
    /\ loads' = loads + 1
    /\ call' = [fn |-> "loadQuranData"]
    /\ UNCHANGED <<envVars, modelVars, procVars, searchBtn, semanticRadioDisabled,
                   loadingStatus, alertMsg>>

NextLoad == CallLoadQuranData

SpecLoad == InitLoad /\ [][NextLoad]_vars

\* A document loadQuranData() accepts: an object whose surahs is a list of
\* chapters, each with a list of verses.
ValidCorpus(f) ==
    /\ f.kind = "json"
    /\ f.doc.t = "object"
    /\ IsArray(f.doc.surahs)
    /\ \A i \in 1..Len(f.doc.surahs.v) : IsArray(f.doc.surahs.v[i].verses)

\* The number of verses in the first n chapters.
RECURSIVE VersesBefore(_, _)
VersesBefore(surahs, n) ==
    IF n = 0 THEN 0 ELSE VersesBefore(surahs, n - 1) + Len(surahs[n].verses.v)

\* C9: once loadQuranData() has run on a valid corpus - once or again - the
\* flattened list has as many records as the chapters have verses in total,
\* and verse j of chapter c sits at position (verses of chapters before c) + j
\* carrying that chapter's and that verse's data: chapter-then-verse order,
\* nothing appended or duplicated by a second load.
C9_FlattenLengthOrderIdempotent ==
    (loads >= 1 /\ ValidCorpus(file)) =>
        LET ss == file.doc.surahs.v IN
        /\ Len(allVersesWithEmbeddings) = VersesBefore(ss, Len(ss))
        /\ \A c \in 1..Len(ss) : \A j \in 1..Len(ss[c].verses.v) :
              LET r == allVersesWithEmbeddings[VersesBefore(ss, c - 1) + j]
                  v == ss[c].verses.v[j] IN
              /\ r.surah_id = c
              /\ r.surah_name = ss[c].name
              /\ r.verse_id = v.id
              /\ r.text_arabic = v.text
              /\ r.text_translation = v.translation
              /\ r.embedding = v.embedding

\* A second load of a corpus of two chapters with two verses each has run.
C9_Witness ==
    /\ loads = 2
    /\ ValidCorpus(file)
    /\ Len(file.doc.surahs.v) = 2
    /\ \A c \in 1..2 : Len(file.doc.surahs.v[c].verses.v) = 2
    /\ file.doc.surahs.v[1].name # file.doc.surahs.v[2].name
    /\ file.doc.surahs.v[1].verses.v[1] # file.doc.surahs.v[1].verses.v[2]
    /\ Len(allVersesWithEmbeddings) = 4

\* C16: in every record of the flattened list surah_id is the 1-based
\* position of the record's chapter in the corpus and verse_id the 1-based
\* position of the verse within its chapter, whatever ids the document stores.
C16_IdsArePositions ==
    (loads >= 1 /\ ValidCorpus(file)) =>
        LET ss == file.doc.surahs.v IN
        \A c \in 1..Len(ss) : \A j \in 1..Len(ss[c].verses.v) :
            LET r == allVersesWithEmbeddings[VersesBefore(ss, c - 1) + j] IN
            /\ r.surah_id = c
            /\ r.verse_id = j

\* What holds of the code: surah_id is the position of the chapter, verse_id
\* is the id the document stores for the verse.
IdsAsLoaded ==
    (loads >= 1 /\ ValidCorpus(file)) =>
        LET ss == file.doc.surahs.v IN
        \A c \in 1..Len(ss) : \A j \in 1..Len(ss[c].verses.v) :
            LET r == allVersesWithEmbeddings[VersesBefore(ss, c - 1) + j] IN
            /\ r.surah_id = c
            /\ r.verse_id = ss[c].verses.v[j].id

\* C19: when loadQuranData() has failed, quranData is still null and the
\* flattened list is empty.
C19_LoadAllOrNothing ==
    (loads >= 1 /\ content = ErrorHtml(<<LoadFailedMsg>>)) =>
        /\ quranData = JsNull
        /\ allVersesWithEmbeddings = <<>>

\* What holds of the code when the failure comes before response.json() has
\* resolved.
NothingLoadedWithoutDocument ==
    (loads >= 1 /\ file.kind # "json") =>
        /\ quranData = JsNull
        /\ allVersesWithEmbeddings = <<>>

-----------------------------------------------------------------------------
(* SpecKeyword: loadQuranData() and then keywordSearchAndDisplay(term)     *)
(* applied to bounded families of corpora and terms.                       *)

LightMercy == <<"L", "i", "g", "h", "t", " ", "m", "e", "r", "c", "y">>

UnitX == JsArr(<<JsNum(1), JsNum(0)>>)
UnitY == JsArr(<<JsNum(0), JsNum(1)>>)

KeywordTranslations == {JsStr(Mercy), JsStr(Light), JsStr(LightMercy), Undefined}

KeywordTerms ==
    {<<"m", "e", "r", "c", "y">>, <<"M", "E", "R", "C", "Y">>,
     <<"l", "i", "g", "h", "t">>, <<"t", " ", "m">>, <<"x">>}

\* One chapter whose verse j has translation ts[j].
OneSurahFile(ts, emb) ==
    Json(Doc(JsArr(<<Surah("Al-Fatihah",
        JsArr([j \in 1..Len(ts) |-> Verse(j, ts[j], emb)]))>>)))

\* A chapter with m verses containing "Mercy": all of its verses, or all but
\* every third one.
DenseFile(m) == OneSurahFile([j \in 1..m |-> JsStr(Mercy)], UnitX)
SparseFile(m) ==
    OneSurahFile([j \in 1..(m + m \div 2) |->
                     IF j % 3 = 0 THEN JsStr(Light) ELSE JsStr(Mercy)], UnitX)

KeywordFiles ==
    {OneSurahFile(ts, UnitX) : ts \in SeqsUpTo(KeywordTranslations, MaxKeywordVerses)}
    \cup {DenseFile(m) : m \in (KeywordDisplayCap - 1)..(KeywordDisplayCap + MaxOverCap)}
    \cup {SparseFile(m) : m \in (KeywordDisplayCap - 1)..(KeywordDisplayCap + MaxOverCap)}

InitKeyword ==
    /\ file \in KeywordFiles
    /\ pipelineOk = TRUE
    /\ InitGlobals

\* One complete call of keywordSearchAndDisplay(searchTerm).
CallKeywordSearchAndDisplay(searchTerm) ==
    /\ LET o == KeywordOutcome(allVersesWithEmbeddings, searchTerm) IN
         /\ content' = o.content
         /\ call' = [fn |-> "keywordSearchAndDisplay", searchTerm |-> searchTerm,
                     threw |-> o.threw, matches |-> o.matches]
    /\ UNCHANGED <<envVars, corpusVars, modelVars, procVars, currentView, searchBtn,
                   semanticRadioDisabled, loadingStatus, alertMsg, loads>>

NextKeyword ==
    \/ CallLoadQuranData
    \/ \E term \in KeywordTerms : CallKeywordSearchAndDisplay(term)

SpecKeyword == InitKeyword /\ [][NextKeyword]_vars

\* Two characters are the same letter up to case.
SameLetter(a, b) ==
    a = b \/ \E i \in 1..26 : {a, b} = {AsciiUpper[i], AsciiLower[i]}

ContainsIgnoringCase(s, q) ==
    \E off \in 0..(Len(s) - Len(q)) : \A k \in 1..Len(q) : SameLetter(s[off + k], q[k])

MatchingVerses(list, q) ==
    SelectSeq(list, LAMBDA v : ContainsIgnoringCase(v.text_translation.v, q))

\* C4: the matches of a completed keyword search are exactly the verses whose
\* translation contains the term as a substring up to letter case, in the
\* order of the flattened list.
C4_KeywordCaseInsensitiveInOrder ==
    (call.fn = "keywordSearchAndDisplay" /\ ~call.threw) =>
        call.matches = MatchingVerses(allVersesWithEmbeddings, call.searchTerm)

\* "MERCY" has matched a verse whose translation is "Mercy", after a verse
\* that does not match and before another that does.
C4_Witness ==
    /\ call.fn = "keywordSearchAndDisplay"
    /\ ~call.threw
    /\ call.searchTerm = <<"M", "E", "R", "C", "Y">>
    /\ Len(allVersesWithEmbeddings) = 3
    /\ allVersesWithEmbeddings[1].text_translation = JsStr(Light)
    /\ allVersesWithEmbeddings[2].text_translation = JsStr(Mercy)
    /\ allVersesWithEmbeddings[3].text_translation = JsStr(LightMercy)
    /\ Len(call.matches) = 2
    /\ call.matches[1].verse_id = 2

\* C5 as stated: the matches keywordSearchAndDisplay hands to
\* displayKeywordResults number min(50, total matching verses).
C5_HandedMatchesCapped ==
    (call.fn = "keywordSearchAndDisplay" /\ ~call.threw) =>
        Len(call.matches) =
            Min(KeywordDisplayCap, Len(MatchingVerses(allVersesWithEmbeddings, call.searchTerm)))

\* C5 as amended: the result page reports the total number of matching verses
\* and renders min(50, total) of them: the first matches in corpus order.
C5_RenderedMatchesCapped ==
    (call.fn = "keywordSearchAndDisplay" /\ content.view = "keywordResults") =>
        LET all == MatchingVerses(allVersesWithEmbeddings, call.searchTerm) IN
        /\ content.found = Len(all)
        /\ Len(content.verses) = Min(KeywordDisplayCap, Len(all))
        /\ \A i \in 1..Len(content.verses) : content.verses[i] = VerseHtml(all[i])

\* A search with more than 50 matches, some verses in between not matching,
\* has been rendered.
C5_Witness ==
    /\ call.fn = "keywordSearchAndDisplay"
    /\ content.view = "keywordResults"
    /\ content.found > KeywordDisplayCap
    /\ content.found < Len(allVersesWithEmbeddings)
    /\ Len(content.verses) = KeywordDisplayCap

-----------------------------------------------------------------------------
(* SpecTopK: loadQuranData() and then the ranking of semanticSearch        *)
(* (script.js:161-176) applied to bounded families of corpora, query       *)
(* embeddings and values of topK.                                          *)

NegX       == JsArr(<<JsNum(0 - 1), JsNum(0)>>)
Slanted    == JsArr(<<JsNum(3), JsNum(4)>>)
ZeroVector == JsArr(<<JsNum(0), JsNum(0)>>)
TooShort   == JsArr(<<JsNum(1)>>)
TooLong    == JsArr(<<JsNum(1), JsNum(0), JsNum(0)>>)
NonNumeric == JsArr(<<JsStr(<<"x">>), JsNum(1)>>)

RankEmbeddings ==
    {UnitX, NegX, Slanted, ZeroVector, TooShort, TooLong, NonNumeric, Undefined}

\* Embeddings as the model returns them (normalize: true): unit vectors.
QueryEmbeddings == {UnitX, UnitY}

\* One chapter whose verse j has embedding es[j].
EmbeddingsFile(es) ==
    Json(Doc(JsArr(<<Surah("Al-Fatihah",
        JsArr([j \in 1..Len(es) |-> Verse(j, JsStr(Mercy), es[j])]))>>)))

RankFiles == {EmbeddingsFile(es) : es \in SeqsUpTo(RankEmbeddings, MaxRankVerses)}

InitTopK ==
    /\ file \in RankFiles
    /\ pipelineOk = TRUE
    /\ InitGlobals

\* The ranking of one semanticSearch call, from the query embedding on.
CallRanking(queryEmbedding) ==
    /\ \E sorted \in SortOutcomes(Similarities(queryEmbedding, allVersesWithEmbeddings)) :
       \E topK \in 0..MaxTopK :
         call' = [fn |-> "semanticSearch", queryEmbedding |-> queryEmbedding,
                  topK |-> topK, results |-> Slice(sorted, topK)]
    /\ UNCHANGED <<envVars, corpusVars, modelVars, procVars, domVars, loads>>

NextTopK ==
    \/ CallLoadQuranData
    \/ \E q \in QueryEmbeddings : CallRanking(q)

SpecTopK == InitTopK /\ [][NextTopK]_vars

\* x >= y for two relevance scores, as JavaScript compares numbers: false
\* when either is NaN.
JsGeq(x, y) ==
    /\ ~IsNaN(x) /\ ~IsNaN(y)
    /\ LET v == JsSub(x, y) IN
       CASE IsNaN(v) -> TRUE
         [] v.k = "inf" -> v.s > 0
         [] OTHER -> v.n >= 0

\* The position of a returned verse in the flattened list (one chapter, so
\* verse_id is the position in the families of this specification).
CorpusPosition(result) == result.verse.verse_id

\* C1: the returned list is sorted non-increasing by relevance, and results
\* with equal relevance are in corpus order.
C1_SortedDescendingStable ==
    call.fn = "semanticSearch" =>
        \A i \in 1..Len(call.results) : \A j \in 1..Len(call.results) :
            i < j =>
                /\ JsGeq(call.results[i].relevance, call.results[j].relevance)
                /\ (call.results[i].relevance = call.results[j].relevance
                       => CorpusPosition(call.results[i]) < CorpusPosition(call.results[j]))

\* What holds of the code: C1 whenever every relevance in the list is a number.
RankedWhenScoresDefined ==
    (call.fn = "semanticSearch"
        /\ \A r \in {Similarities(call.queryEmbedding, allVersesWithEmbeddings)[i] :
                       i \in 1..Len(Similarities(call.queryEmbedding, allVersesWithEmbeddings))} :
              ~IsNaN(r.relevance))
    => C1_SortedDescendingStable

\* An embedding the specification calls valid: an array of numbers of the
\* dimensionality of the query embedding.
WellFormed(embedding, dim) ==
    /\ IsArray(embedding)
    /\ Len(embedding.v) = dim
    /\ \A i \in 1..dim : embedding.v[i].t = "number"

ValidCount(list, dim) ==
    Cardinality({i \in 1..Len(list) : WellFormed(list[i].embedding, dim)})

\* C2: exactly min(k, number of verses with a valid embedding) results.
C2_ExactlyMinKValid ==
    call.fn = "semanticSearch" =>
        Len(call.results) =
            Min(call.topK, ValidCount(allVersesWithEmbeddings, Len(call.queryEmbedding.v)))

\* What holds of the code: min(k, number of verses whose embedding is an array).
CountOfEmbeddingArrays ==
    call.fn = "semanticSearch" =>
        Len(call.results) =
            Min(call.topK,
                Cardinality({i \in 1..Len(allVersesWithEmbeddings) :
                                IsArray(allVersesWithEmbeddings[i].embedding)}))

\* C10: every verse in a semantic result list has a well-formed embedding of
\* the expected dimensionality.
C10_MalformedExcluded ==
    call.fn = "semanticSearch" =>
        \A i \in 1..Len(call.results) :
            WellFormed(call.results[i].verse.embedding, Len(call.queryEmbedding.v))

\* C15: every returned result carries a relevance that is a number in
\* [-1, 1]; never NaN, also when an embedding has zero norm.
C15_RelevanceInUnitRange ==
    call.fn = "semanticSearch" =>
        \A i \in 1..Len(call.results) : InUnitRange(call.results[i].relevance)

\* What holds of the code: the relevance is a number in [-1, 1] when the
\* embedding of the verse is well-formed and not the zero vector.
RelevanceDefinedOffZero ==
    call.fn = "semanticSearch" =>
        \A i \in 1..Len(call.results) :
            (/\ WellFormed(call.results[i].verse.embedding, Len(call.queryEmbedding.v))
             /\ call.results[i].verse.embedding # ZeroVector)
                => InUnitRange(call.results[i].relevance)

-----------------------------------------------------------------------------
(* Spec: the page.  init() loads the corpus and the model; the user        *)
(* searches at any time, also while an earlier semantic search is still    *)
(* waiting for the model (searchVerses has no guard against re-entry).     *)
(* Code between two awaits runs as one step.  In this specification call   *)
(* observes getQueryEmbedding.                                             *)

GoodFile ==
    Json(Doc(JsArr(<<
        Surah("Al-Fatihah", JsArr(<<Verse(1, JsStr(Mercy), UnitX),
                                    Verse(2, JsStr(Light), NegX)>>)),
        Surah("Al-Baqarah", JsArr(<<Verse(1, JsStr(LightMercy), Undefined)>>))>>)))

AppFiles == {GoodFile, FetchError}

Init ==
    /\ file \in AppFiles
    /\ pipelineOk \in BOOLEAN
    /\ InitGlobals

ModelDownloadingMsg == "Downloading model (one-time, ~90MB)..."
ModelReadyMsg == "Model loaded! AI search is ready."
ModelFailedMsg == "Failed to load model. Semantic search will not be available."
EmbedderErrorMsg == "inference failed"

\* DOMContentLoaded: init() runs up to the fetch (script.js:17-25, 388).
DomContentLoaded ==
    /\ initPc = "start"
    /\ initPc' = "fetching"
    /\ UNCHANGED <<envVars, corpusVars, modelVars, domVars, pending, modelCalls,
                   unhandled, loads, call>>

\* The fetch settles: the rest of loadQuranData(), then initializeModel() up
\* to the call of pipeline() (script.js:26-49, 19, 53-83).
FetchSettles ==
    /\ initPc = "fetching"
    /\ LET o == LoadOutcome(file, quranData, allVersesWithEmbeddings, content, currentView) IN
         /\ quranData' = o.quranData
         /\ allVersesWithEmbeddings' = o.list
         /\ content' = o.content
         /\ currentView' = o.currentView
    /\ loads' = loads + 1
    /\ IF modelLoaded
       THEN initPc' = "done" /\ UNCHANGED loadingStatus
       ELSE initPc' = "pipeline" /\ loadingStatus' = ModelDownloadingMsg
    /\ UNCHANGED <<envVars, modelVars, searchBtn, semanticRadioDisabled, alertMsg,
                   pending, modelCalls, unhandled, call>>

PipelineSettlesLoadedAnyway ==
    /\ initPc = "pipeline"
    /\ initPc' = "done"
    /\ IF pipelineOk
       THEN /\ embedder' = "pipeline"
            /\ modelLoaded' = TRUE
            /\ loadingStatus' = ModelReadyMsg
            /\ UNCHANGED semanticRadioDisabled
       ELSE /\ loadingStatus' = ModelFailedMsg
            /\ semanticRadioDisabled' = TRUE
            /\ modelLoaded' = TRUE
            /\ UNCHANGED embedder
    /\ UNCHANGED <<envVars, corpusVars, queryEmbeddingCache, content, currentView,
                   searchBtn, alertMsg, pending, modelCalls, unhandled, loads, call>>

PipelineSettlesNoEmbedder ==
    /\ initPc = "pipeline"
    /\ initPc' = "done"
    /\ IF pipelineOk
       THEN /\ modelLoaded' = TRUE
            /\ loadingStatus' = ModelReadyMsg
            /\ UNCHANGED <<embedder, semanticRadioDisabled>>
       ELSE /\ loadingStatus' = ModelFailedMsg
            /\ semanticRadioDisabled' = TRUE
            /\ UNCHANGED <<embedder, modelLoaded>>
    /\ UNCHANGED <<envVars, corpusVars, queryEmbeddingCache, content, currentView,
                   searchBtn, alertMsg, pending, modelCalls, unhandled, loads, call>>

\* pipeline() settles: the rest of initializeModel() (script.js:83-100).
PipelineSettles ==
    /\ initPc = "pipeline"
    /\ initPc' = "done"
    /\ IF pipelineOk
       THEN /\ embedder' = "pipeline"
            /\ modelLoaded' = TRUE
            /\ loadingStatus' = ModelReadyMsg
            /\ UNCHANGED semanticRadioDisabled
       ELSE /\ loadingStatus' = ModelFailedMsg
            /\ semanticRadioDisabled' = TRUE
            /\ UNCHANGED <<embedder, modelLoaded>>
    /\ UNCHANGED <<envVars, corpusVars, queryEmbeddingCache, content, currentView,
                   searchBtn, alertMsg, pending, modelCalls, unhandled, loads, call>>

\* searchVerses in keyword mode, from the try block to the end of finally
\* (script.js:251, 259-264, 268-288); an error thrown by the filter leaves
\* searchVerses uncaught.
KeywordSearch(searchTerm) ==
    /\ LET o == KeywordOutcome(allVersesWithEmbeddings, searchTerm) IN
         /\ content' = o.content
         /\ unhandled' = IF o.threw THEN "TypeError" ELSE unhandled
    /\ searchBtn' = ButtonIdle
    /\ UNCHANGED <<envVars, corpusVars, modelVars, currentView, semanticRadioDisabled,
                   loadingStatus, alertMsg, initPc, pending, modelCalls, loads, call>>

RECURSIVE SumOver(_, _)
SumOver(f, S) ==
    IF S = {} THEN 0
    ELSE LET x == CHOOSE y \in S : TRUE IN f[x] + SumOver(f, S \ {x})

\* The number of embedder(query) invocations so far.
TotalModelCalls == SumOver(modelCalls, DOMAIN modelCalls)

\* searchVerses in semantic mode past the modelLoaded gate: semanticSearch and
\* getQueryEmbedding (script.js:257, 291-293, 150-156, 104-119).  A cached
\* embedding, or a missing embedder, lets the search run to its end at once
\* (script.js:158-176, 295-309, 261-264); otherwise the model is invoked and
\* the search waits for it.
SemanticSearch(searchTerm) ==
    LET cached == CacheLookup(queryEmbeddingCache, searchTerm) IN
    IF Truthy(cached)
    THEN /\ content' \in SemanticContents(cached, allVersesWithEmbeddings, searchTerm)
         /\ searchBtn' = ButtonIdle
         /\ call' = [fn |-> "getQueryEmbedding", query |-> searchTerm, hit |-> TRUE,
                     threw |-> FALSE, result |-> cached]
         /\ UNCHANGED <<envVars, corpusVars, modelVars, currentView, semanticRadioDisabled,
                        loadingStatus, alertMsg, procVars, loads>>
    ELSE IF embedder = "null"
    THEN /\ content' = ErrorHtml(<<"AI search failed: ", ModelNotLoadedMsg>>)
         /\ searchBtn' = ButtonIdle
         /\ call' = [fn |-> "getQueryEmbedding", query |-> searchTerm, hit |-> FALSE,
                     threw |-> TRUE, result |-> Undefined]
         /\ UNCHANGED <<envVars, corpusVars, modelVars, currentView, semanticRadioDisabled,
                        loadingStatus, alertMsg, procVars, loads>>
    ELSE /\ TotalModelCalls < MaxModelCalls
         /\ content' = LoadingHtml("AI is analyzing your query")
         /\ searchBtn' = ButtonBusy
         /\ pending' = Append(pending, searchTerm)
         /\ modelCalls' = [modelCalls EXCEPT ![searchTerm] = @ + 1]
         /\ UNCHANGED <<envVars, corpusVars, modelVars, currentView, semanticRadioDisabled,
                        loadingStatus, alertMsg, initPc, unhandled, loads, call>>

SearchVersesUngated(value, searchMode) ==
    LET searchTerm == Trim(value) IN
    IF searchTerm = <<>>
    THEN /\ alertMsg' = EnterTermMsg
         /\ UNCHANGED <<envVars, corpusVars, modelVars, content, currentView, searchBtn,
                        semanticRadioDisabled, loadingStatus, procVars, loads, call>>
    ELSE IF searchMode = "semantic"
    THEN SemanticSearch(searchTerm)
    ELSE KeywordSearch(searchTerm)

\* searchVerses() with value in #searchInput and searchMode checked
\* (script.js:238-265), up to its first wait for the model.
SearchVerses(value, searchMode) ==
    LET searchTerm == Trim(value) IN
    IF searchTerm = <<>>
    THEN /\ alertMsg' = EnterTermMsg
         /\ UNCHANGED <<envVars, corpusVars, modelVars, content, currentView, searchBtn,
                        semanticRadioDisabled, loadingStatus, procVars, loads, call>>
    ELSE IF searchMode = "semantic"
    THEN IF ~modelLoaded
         THEN /\ alertMsg' = ModelLoadingMsg
              /\ searchBtn' = ButtonIdle
              /\ UNCHANGED <<envVars, corpusVars, modelVars, content, currentView,
                             semanticRadioDisabled, loadingStatus, procVars, loads, call>>
         ELSE SemanticSearch(searchTerm)
    ELSE KeywordSearch(searchTerm)

\* The waiting search that settles next: any of them.
Waiting == 1..MaxModelCalls

RemoveAt(seq, i) == SubSeq(seq, 1, i - 1) \o SubSeq(seq, i + 1, Len(seq))

EmbedderResolvesSortingInPlace(i) ==
    /\ i \in 1..Len(pending)
    /\ \E embedding \in QueryEmbeddings :
         /\ queryEmbeddingCache' = CacheStore(queryEmbeddingCache, pending[i], embedding)
         /\ \E sorted \in TopResults(embedding, allVersesWithEmbeddings,
                                     Len(allVersesWithEmbeddings)) :
              /\ allVersesWithEmbeddings' = [k \in 1..Len(sorted) |-> sorted[k].verse]
              /\ content' = IF Len(sorted) > 0
                            THEN SemanticResultsHtml(Slice(sorted, SemanticTopK), pending[i])
                            ELSE NoResultsHtml("Try keyword search or different terms")
         /\ call' = [fn |-> "getQueryEmbedding", query |-> pending[i], hit |-> FALSE,
                     threw |-> FALSE, result |-> embedding]
    /\ searchBtn' = ButtonIdle
    /\ pending' = RemoveAt(pending, i)
    /\ UNCHANGED <<envVars, quranData, embedder, modelLoaded, currentView,
                   semanticRadioDisabled, loadingStatus, alertMsg, initPc, modelCalls,
                   unhandled, loads>>

\* embedder(query) resolves for the i-th waiting search: the rest of
\* getQueryEmbedding, semanticSearch, semanticSearchAndDisplay and searchVerses
\* (script.js:119-126, 158-176, 295-306, 261-264).  The model is a black box:
\* it may return any embedding.
EmbedderResolves(i) ==
    /\ i \in 1..Len(pending)
    /\ \E embedding \in QueryEmbeddings :
         /\ queryEmbeddingCache' = CacheStore(queryEmbeddingCache, pending[i], embedding)
         /\ content' \in SemanticContents(embedding, allVersesWithEmbeddings, pending[i])
         /\ call' = [fn |-> "getQueryEmbedding", query |-> pending[i], hit |-> FALSE,
                     threw |-> FALSE, result |-> embedding]
    /\ searchBtn' = ButtonIdle
    /\ pending' = RemoveAt(pending, i)
    /\ UNCHANGED <<envVars, corpusVars, embedder, modelLoaded, currentView,
                   semanticRadioDisabled, loadingStatus, alertMsg, initPc, modelCalls,
                   unhandled, loads>>

\* embedder(query) rejects for the i-th waiting search: the catch blocks and
\* finally (script.js:128-131, 178-181, 307-309, 261-264).
EmbedderRejects(i) ==
    /\ i \in 1..Len(pending)
    /\ content' = ErrorHtml(<<"AI search failed: ", EmbedderErrorMsg>>)
    /\ call' = [fn |-> "getQueryEmbedding", query |-> pending[i], hit |-> FALSE,
                threw |-> TRUE, result |-> Undefined]
    /\ searchBtn' = ButtonIdle
    /\ pending' = RemoveAt(pending, i)
    /\ UNCHANGED <<envVars, corpusVars, modelVars, currentView, semanticRadioDisabled,
                   loadingStatus, alertMsg, initPc, modelCalls, unhandled, loads>>

Next ==
    \/ DomContentLoaded
    \/ FetchSettles
    \/ PipelineSettles
    \/ \E value \in SearchInputs : \E searchMode \in SearchModes :
          SearchVerses(value, searchMode)
    \/ \E i \in Waiting : EmbedderResolves(i)
    \/ \E i \in Waiting : EmbedderRejects(i)

Spec == Init /\ [][Next]_vars

\* The input is empty once leading and trailing whitespace is removed.
Blank(value) == \A i \in 1..Len(value) : IsWhitespace(value[i])

\* A keyword search leaves the page that lists the verses matching the term,
\* or the page that says there are none, and no error behind.
KeywordSearchCompleted(searchTerm) ==
    LET all == MatchingVerses(allVersesWithEmbeddings, searchTerm) IN
    /\ IF Len(all) > 0
       THEN content'.view = "keywordResults" /\ content'.found = Len(all)
       ELSE content'.view = "noResults"
    /\ searchBtn' = ButtonIdle
    /\ unhandled' = unhandled

\* C3 as stated: over any sequence of calls the model is invoked at most once
\* per distinct query text.
C3_InvokedAtMostOncePerText ==
    \A t \in SearchTerms : modelCalls[t] <= 1

\* C3 as amended: a call that finds a vector stored for its text returns that
\* vector; a call that computes stores what it returns; the model is invoked,
\* once per call, only for a text with no vector stored; and a stored text
\* stays stored.
C3_CacheHitNoRecompute ==
    /\ [](call.fn = "getQueryEmbedding" =>
            /\ (call.hit /\ call.query \in DOMAIN queryEmbeddingCache)
                  => call.result = queryEmbeddingCache[call.query]
            /\ (~call.hit /\ ~call.threw)
                  => /\ call.query \in DOMAIN queryEmbeddingCache
                     /\ call.result = queryEmbeddingCache[call.query])
    /\ [][\A t \in SearchTerms :
            /\ modelCalls'[t] # modelCalls[t]
                  => /\ t \notin DOMAIN queryEmbeddingCache
                     /\ modelCalls'[t] = modelCalls[t] + 1
            /\ t \in DOMAIN queryEmbeddingCache => t \in DOMAIN queryEmbeddingCache']_vars

\* A second call with a text computed once has returned the stored vector.
C3_Witness ==
    /\ call.fn = "getQueryEmbedding"
    /\ call.hit
    /\ call.query \in DOMAIN queryEmbeddingCache
    /\ call.result = queryEmbeddingCache[call.query]
    /\ modelCalls[call.query] = 1

\* C6: searchVerses on an input that is empty after trimming shows the
\* "enter a search term" alert and changes nothing else - not the button, the
\* content, the cache, the corpus, the waiting searches or the count of model
\* invocations - in either mode.
C6_EmptyQueryRejected ==
    [][\A value \in SearchInputs : \A searchMode \in SearchModes :
          (Blank(value) /\ SearchVerses(value, searchMode)) =>
              /\ alertMsg' = EnterTermMsg
              /\ UNCHANGED <<envVars, corpusVars, modelVars, content, currentView,
                             searchBtn, semanticRadioDisabled, loadingStatus, procVars,
                             loads, call>>]_vars

\* A blank query has been rejected while a semantic search was waiting for
\* the model, the button still disabled.
C6_Witness ==
    /\ alertMsg = EnterTermMsg
    /\ Len(pending) = 1
    /\ searchBtn = ButtonBusy
    /\ content = LoadingHtml("AI is analyzing your query")

\* C7: a semantic search while the model is not loaded shows the "still
\* loading" alert, re-enables the button and does nothing else: no model
\* invocation, no waiting search, no error left uncaught; the model is only
\* ever invoked by a semantic searchVerses call made while it is loaded; and
\* once the alert has been shown keyword search is available and completes.
C7_ModelNotReady ==
    /\ [][\A value \in SearchInputs :
            (~Blank(value) /\ ~modelLoaded /\ SearchVerses(value, "semantic")) =>
                /\ alertMsg' = ModelLoadingMsg
                /\ searchBtn' = ButtonIdle
                /\ UNCHANGED <<envVars, corpusVars, modelVars, content, currentView,
                               semanticRadioDisabled, loadingStatus, procVars, loads,
                               call>>]_vars
    /\ [][modelCalls' # modelCalls =>
            /\ modelLoaded
            /\ \E value \in SearchInputs : SearchVerses(value, "semantic")]_vars
    /\ [](alertMsg = ModelLoadingMsg =>
            \A value \in SearchInputs :
                ~Blank(value) => ENABLED SearchVerses(value, "keyword"))
    /\ [][\A value \in SearchInputs :
            (alertMsg = ModelLoadingMsg /\ ~Blank(value) /\ SearchVerses(value, "keyword"))
                => KeywordSearchCompleted(Trim(value))]_vars

\* The alert has been shown, the model is still not loaded, and a keyword
\* search has listed its matches.
C7_Witness ==
    /\ alertMsg = ModelLoadingMsg
    /\ ~modelLoaded
    /\ initPc = "pipeline"
    /\ content.view = "keywordResults"
    /\ searchBtn = ButtonIdle

\* initializeModel() has failed.
ModelInitFailed == loadingStatus = ModelFailedMsg

\* C8: once initializeModel() has failed it stays failed; modelLoaded is
\* false, there is no embedder, init() is over and pipeline() is not called
\* again, the model has never been and is never invoked, a semantic search only
\* shows the alert, and keyword search is available and completes.
C8_ModelInitFailurePermanent ==
    /\ [](ModelInitFailed =>
            /\ ~modelLoaded
            /\ embedder = "null"
            /\ initPc = "done"
            /\ semanticRadioDisabled
            /\ pending = <<>>
            /\ TotalModelCalls = 0
            /\ \A value \in SearchInputs :
                  ~Blank(value) => ENABLED SearchVerses(value, "keyword"))
    /\ [][ModelInitFailed =>
            /\ ModelInitFailed'
            /\ modelCalls' = modelCalls
            /\ \A value \in SearchInputs :
                  /\ (~Blank(value) /\ SearchVerses(value, "semantic"))
                        => (alertMsg' = ModelLoadingMsg /\ content' = content)
                  /\ (~Blank(value) /\ SearchVerses(value, "keyword"))
                        => KeywordSearchCompleted(Trim(value))]_vars

\* After the failure a semantic search has been turned away and a keyword
\* search has listed its matches.
C8_Witness ==
    /\ ModelInitFailed
    /\ alertMsg = ModelLoadingMsg
    /\ content.view = "keywordResults"
    /\ content.found = 2

\* C18: a getQueryEmbedding call is a hit only for a text an earlier call
\* computed and stored, and then returns what was stored; any other text that
\* does not fail returns a vector the model produced - also a text that names
\* a built-in property of the cache object.
C18_HitOnlyIfStored ==
    (call.fn = "getQueryEmbedding" /\ ~call.threw) =>
        /\ call.hit => /\ call.query \in DOMAIN queryEmbeddingCache
                       /\ call.result = queryEmbeddingCache[call.query]
        /\ call.result \in QueryEmbeddings

\* What holds of the code: a text that names no inherited property is a hit
\* only if it was stored.
HitOnlyIfStoredOrInherited ==
    (call.fn = "getQueryEmbedding" /\ call.hit /\ ~Truthy(InheritedProperty(call.query))) =>
        /\ call.query \in DOMAIN queryEmbeddingCache
        /\ call.result = queryEmbeddingCache[call.query]

\* The page showError leaves when getQueryEmbedding finds no embedder.
ModelNotLoadedHtml == ErrorHtml(<<"AI search failed: ", ModelNotLoadedMsg>>)

\* C20: modelLoaded implies that embedder is the pipeline; modelLoaded never
\* goes back to false; and a semantic search that passes the modelLoaded gate
\* never ends in the "AI model not loaded yet" error: that page is never shown,
\* and getQueryEmbedding only throws when a model invocation it waited for has
\* rejected.
C20_LoadedImpliesEmbedder ==
    /\ [](modelLoaded => embedder = "pipeline")
    /\ [][modelLoaded => modelLoaded']_vars
    /\ [](content # ModelNotLoadedHtml)
    /\ [][(call' # call /\ call'.fn = "getQueryEmbedding" /\ call'.threw)
              => Len(pending') < Len(pending)]_vars

\* With the model loaded, a semantic search has passed the gate and
\* getQueryEmbedding has returned a vector of the model.
C20_Witness ==
    /\ modelLoaded
    /\ embedder = "pipeline"
    /\ call.fn = "getQueryEmbedding"
    /\ ~call.hit
    /\ ~call.threw
    /\ content.view = "semanticResults"

-----------------------------------------------------------------------------
(* SpecSession: the page with its navigation (displaySurahList, loadSurah) *)
(* and with corpus documents that are incomplete: a verse without          *)
(* translation text, a chapter without a verses list.                      *)

\* Two chapters; the best match of UnitX is the second verse.
SessionFile ==
    Json(Doc(JsArr(<<
        Surah("Al-Fatihah", JsArr(<<Verse(1, JsStr(Mercy), NegX),
                                    Verse(2, JsStr(Light), UnitX)>>)),
        Surah("Al-Baqarah", JsArr(<<Verse(1, JsStr(LightMercy), Undefined)>>))>>)))

\* The second verse has no translation property.
GapFile ==
    Json(Doc(JsArr(<<
        Surah("Al-Fatihah", JsArr(<<Verse(1, JsStr(Light), UnitX),
                                    Verse(2, Undefined, UnitY)>>))>>)))

\* The second chapter has no verses property.
TornFile ==
    Json(Doc(JsArr(<<
        Surah("Al-Fatihah", JsArr(<<Verse(1, JsStr(Light), UnitX)>>)),
        Surah("Al-Baqarah", Undefined)>>)))

SessionFiles == {SessionFile, GapFile, TornFile, FetchError}

SessionInputs == {<<>>, Light}

InitSession ==
    /\ file \in SessionFiles
    /\ pipelineOk \in BOOLEAN
    /\ InitGlobals

\* The pages that carry a "Back to Surahs" button (script.js:213, 284, 303,
\* 317, 348, 377).
HasBackButton(html) ==
    html.view \in {"surah", "noResults", "keywordResults", "semanticResults", "error"}

\* loadSurah's innerHTML (script.js:212-234).
SurahHtml(surah) ==
    [view |-> "surah", title |-> surah.name, total_verses |-> surah.total_verses,
     verses |-> [j \in 1..Len(surah.verses.v) |->
                    [id |-> surah.verses.v[j].id, text |-> surah.verses.v[j].text,
                     translation |-> surah.verses.v[j].translation]]]

\* A click on "Back to Surahs": displaySurahList() (script.js:185-204).
\* quranData.surahs.forEach throws when there is no document or no list; the
\* click handler has no catch.
DisplaySurahList ==
    /\ HasBackButton(content)
    /\ currentView' = "home"
    /\ IF quranData.t = "object" /\ IsArray(quranData.surahs)
       THEN /\ content' = SurahListHtml(quranData.surahs.v)
            /\ UNCHANGED unhandled
       ELSE /\ unhandled' = "TypeError"
            /\ UNCHANGED content
    /\ UNCHANGED <<envVars, corpusVars, modelVars, searchBtn, semanticRadioDisabled,
                   loadingStatus, alertMsg, initPc, pending, modelCalls, loads, call>>

\* A click on the card of chapter surahIndex: loadSurah(surahIndex)
\* (script.js:207-235).  surah.verses.forEach throws when the chapter has no
\* list.
LoadSurah(surahIndex) ==
    /\ content.view = "surahList"
    /\ surahIndex + 1 \in 1..Len(content.cards)
    /\ currentView' = "surah"
    /\ LET surah == quranData.surahs.v[surahIndex + 1] IN
       IF IsArray(surah.verses)
       THEN /\ content' = SurahHtml(surah)
            /\ UNCHANGED unhandled
       ELSE /\ unhandled' = "TypeError"
            /\ UNCHANGED content
    /\ UNCHANGED <<envVars, corpusVars, modelVars, searchBtn, semanticRadioDisabled,
                   loadingStatus, alertMsg, initPc, pending, modelCalls, loads, call>>

NextSession ==
    \/ DomContentLoaded
    \/ FetchSettles
    \/ PipelineSettles
    \/ \E value \in SessionInputs : \E searchMode \in SearchModes :
          SearchVerses(value, searchMode)
    \/ \E i \in Waiting : EmbedderResolves(i)
    \/ \E i \in Waiting : EmbedderRejects(i)
    \/ DisplaySurahList
    \/ \E surahIndex \in 0..(MaxChapters - 1) : LoadSurah(surahIndex)

SpecSession == InitSession /\ [][NextSession]_vars

\* The pages a finished search may leave: results, no results, or an error.
IsOutcomePage(html) ==
    html.view \in {"keywordResults", "semanticResults", "noResults", "error"}

\* C11: no error raised while a query is processed goes uncaught: no step of
\* searchVerses, in either mode, and no settling of the model invocation it
\* waits for, leaves an error that no handler caught.
C11_NoUncaughtSearchError ==
    [][((\E value \in SessionInputs : \E searchMode \in SearchModes :
            SearchVerses(value, searchMode))
        \/ Len(pending') < Len(pending))
       => unhandled' = unhandled]_vars

\* What holds of the code: semantic mode leaves no error uncaught.
SemanticErrorsCaught ==
    [][((\E value \in SessionInputs : SearchVerses(value, "semantic"))
        \/ Len(pending') < Len(pending))
       => unhandled' = unhandled]_vars

\* C12: every search that has started leaves Searching through Results,
\* NoResults or Failed, and on every exit - the model-not-ready return
\* included - the search button is enabled again.
C12_LifecycleOutcome ==
    [][/\ \A value \in SessionInputs : \A searchMode \in SearchModes :
            (~Blank(value) /\ SearchVerses(value, searchMode) /\ pending' = pending) =>
                /\ searchBtn' = ButtonIdle
                /\ (searchMode = "semantic" /\ ~modelLoaded) \/ IsOutcomePage(content')
       /\ Len(pending') < Len(pending) =>
            /\ searchBtn' = ButtonIdle
            /\ IsOutcomePage(content')]_vars

\* What holds of the code: the button is enabled again on every exit, and a
\* rejection of the model leads to the error page carrying its message.
ButtonReleasedOnEveryExit ==
    [][/\ \A value \in SessionInputs : \A searchMode \in SearchModes :
            (~Blank(value) /\ SearchVerses(value, searchMode) /\ pending' = pending) =>
                searchBtn' = ButtonIdle
       /\ Len(pending') < Len(pending) =>
            /\ searchBtn' = ButtonIdle
            /\ IsOutcomePage(content')
            /\ (call'.threw => content' = ErrorHtml(<<"AI search failed: ", EmbedderErrorMsg>>))]_vars

\* loadQuranData() has run and failed.
LoadFailed ==
    /\ initPc \in {"pipeline", "done"}
    /\ ~LoadOutcome(file, quranData, allVersesWithEmbeddings, content, currentView).ok

\* C13: once loadQuranData() has failed the error page stays in place: no
\* later search or navigation replaces it, and the chapter list is never
\* rendered.
C13_LoadErrorPersists ==
    LoadFailed => content = ErrorHtml(<<LoadFailedMsg>>)

\* What holds of the code: the failed load itself shows the error page and
\* no chapter list.
LoadErrorShownAtFailure ==
    [][(initPc = "fetching" /\ LoadFailed') => content' = ErrorHtml(<<LoadFailedMsg>>)]_vars

\* A page written by keywordSearchAndDisplay.
IsKeywordPage(html) ==
    \/ html.view = "keywordResults"
    \/ html = NoResultsHtml("Try Semantic Search for better results or different keywords")
    \/ html = LoadingHtml("Searching...")

\* C14: the result of a search still in flight is discarded when a newer
\* query has already changed the displayed state.  A semantic search that
\* waits for the model wrote "AI is analyzing your query" when it started, so
\* a keyword page on display was written by a query issued after every waiting
\* search: the settling of a waiting search must leave it in place.
C14_StaleResultDiscarded ==
    [][(Len(pending') < Len(pending) /\ IsKeywordPage(content)) => content' = content]_vars

\* C17: after the load no step - keyword search, semantic search, chapter
\* list, chapter detail - changes quranData or the flattened list.
C17_CorpusImmutableAfterLoad ==
    [][loads >= 1 => UNCHANGED <<quranData, allVersesWithEmbeddings>>]_vars

\* A semantic search has put the second verse of the list first in its
\* results, and the list is as loaded.
C17_Witness ==
    /\ file = SessionFile
    /\ loads = 1
    /\ content.view = "semanticResults"
    /\ content.found = 2
    /\ Len(allVersesWithEmbeddings) = 3
    /\ content.results[1].verse = VerseHtml(allVersesWithEmbeddings[2])
    /\ content.results[2].verse = VerseHtml(allVersesWithEmbeddings[1])
    /\ \A k \in 1..2 : allVersesWithEmbeddings[k].verse_id = k

====
